---- MODULE Spec2Model ----
(***************************************************************************)
(* Model of the limit order book of TsengMJ/Rust-Trading-Engine:           *)
(*   src/src/matching_engine/orderbook.rs  (Price, Order, Limit, OrderBook)*)
(*   src/src/matching_engine/engine.rs     (TradingPair, MatchingEngine)   *)
(*                                                                         *)
(* Order sizes are f64 in the source.  They are modelled as integer-valued *)
(* binary floating-point numbers with a MantBits-bit significand and       *)
(* round-to-nearest-even (f64 is the instance MantBits = 53): every        *)
(* integer below 2^MantBits is exact, larger values are rounded.           *)
(* Prices are f64 too, with a PriceMantBits-bit significand; the decimal   *)
(* price literals of the callers are counts of 1/PriceUnit.                *)
(***************************************************************************)
EXTENDS Integers, Sequences, FiniteSets, TLC

VARIABLES limit, book, orderbooks, added, last

vars == <<limit, book, orderbooks, added, last>>

----------------------------------------------------------------------------
(* Bounds of the model *)

\* width of the significand of a size (f64: 53)
MantBits == 7
\* longest queue of the stand-alone price level (SpecLimit)
MaxOrders == 3
\* most orders ever added to the stand-alone order book (Spec)
MaxBookOrders == 3
\* most orders resting in the books of the engine (SpecEngine)
MaxEngineOrders == 2
\* width of the significand of a price (f64: 53)
PriceMantBits == 19

\* sizes of the orders given to Limit::add_order / Limit::fill_order
LimitRestSizes == {0, 1, 50, 100, 128}
LimitMarketSizes == {0, 50, 99, 100, 130}
\* sizes of the orders given to OrderBook::add_order / fill_market_order
BookRestSizes == {1, 128}
BookMarketSizes == {0, 130}
\* sizes of the orders given to MatchingEngine::place_limit_order
EngineSizes == {5}

----------------------------------------------------------------------------
(* f64 arithmetic on sizes *)

\* the element of a one-element set: Only({e}) is e, computed once
Only(S) == CHOOSE x \in S : TRUE

RECURSIVE Pow2(_)
Pow2(n) == IF n = 0 THEN 1 ELSE 2 * Pow2(n - 1)

\* the spacing of the representable values around x >= 0
RECURSIVE Ulp(_)
Ulp(x) == IF x < Pow2(MantBits) THEN 1 ELSE 2 * Ulp(x \div 2)

\* round-to-nearest, ties to even significand
Round(x) ==
    LET u == Ulp(x)
        q == x \div u
        r == x % u
    IN  IF 2 * r < u THEN q * u
        ELSE IF 2 * r > u THEN (q + 1) * u
        ELSE IF q % 2 = 0 THEN q * u
        ELSE (q + 1) * u

Representable(x) == x >= 0 /\ Round(x) = x

\* a - b on f64, for a >= b >= 0
FSub(a, b) == Round(a - b)

\* a + b on f64, for a, b >= 0
FAdd(a, b) == Round(a + b)

----------------------------------------------------------------------------
(* enum BidOrAsk *)

Bid == "Bid"
Ask == "Ask"
BidOrAsk == {Bid, Ask}

----------------------------------------------------------------------------
(* struct Price *)

Scalar == 100000

\* The f64 prices are modelled as binary floating-point numbers with a
\* PriceMantBits-bit significand (f64: 53), written as counts of
\* 1/PriceOne = 2^-PriceFracBits; numbers below 1 are spaced 1/PriceOne.
PriceFracBits == PriceMantBits - 1
PriceOne == Pow2(PriceFracBits)

\* the counts below PriceTop are all representable
PriceTop == 2 * PriceOne

\* the spacing, in 1/PriceOne, of the representable prices around x >= 0
RECURSIVE PriceUlp(_)
PriceUlp(x) == IF x < PriceTop THEN 1 ELSE 2 * PriceUlp(x \div 2)

\* the multiple of u nearest to x, ties to the even multiple
RoundAt(x, u) ==
    Only({ IF 2 * (x % u) < u THEN q * u
           ELSE IF 2 * (x % u) > u THEN (q + 1) * u
           ELSE IF q % 2 = 0 THEN q * u
           ELSE (q + 1) * u : q \in {x \div u} })

\* round-to-nearest-even to a PriceMantBits-bit significand
PriceRound(x) == RoundAt(x, PriceUlp(x))

\* resolution in which the decimal price literals are written: 1/PriceUnit
PriceUnit == 10 * Scalar

\* g * 2^n / PriceUnit for g < PriceUnit: quotient q and remainder r
RECURSIVE Doubled(_, _)
Doubled(g, n) ==
    IF n = 0 THEN [q |-> 0, r |-> g]
    ELSE Only({ [q |-> 2 * h.q + (2 * h.r) \div PriceUnit,
                 r |-> (2 * h.r) % PriceUnit] : h \in {Doubled(g, n - 1)} })

\* the f64 that a decimal price literal denotes: the representable number
\* nearest to literal / PriceUnit.  The two low bits of the rounded count
\* say where the cut-off remainder lies relative to half of 1/PriceOne.
F64(literal) ==
    Only({ RoundAt(4 * (t.whole + t.h.q)
                     + (IF t.h.r = 0 THEN 0
                        ELSE IF 2 * t.h.r < PriceUnit THEN 1
                        ELSE IF 2 * t.h.r = PriceUnit THEN 2
                        ELSE 3),
                   4 * PriceUlp(t.whole + t.h.q)) \div 4 :
           t \in { [ whole |-> (literal \div PriceUnit) * PriceOne,
                     h     |-> Doubled(literal % PriceUnit, PriceFracBits) ] } })

\* price.fract() * scalar as f64: the exact product rounded to f64, as a
\* count of 32/PriceOne (Scalar = 32 * 3125, and scaling by 32 is exact)
FractTimesScalar(price) == PriceRound((price % PriceOne) * (Scalar \div 32))

\* Price::new with `price.round() as u64` for the integral part
Price_new_rounds_integral(price) ==
    [ integral   |-> (price + PriceOne \div 2) \div PriceOne,
      fractional |-> FractTimesScalar(price) \div (PriceOne \div 32),
      scalar     |-> Scalar ]

\* Price::new with the scaled fraction rounded to nearest, not truncated
Price_new_rounds_fractional(price) ==
    [ integral   |-> price \div PriceOne,
      fractional |-> RoundAt(FractTimesScalar(price), PriceOne \div 32)
                        \div (PriceOne \div 32),
      scalar     |-> Scalar ]

\* Price::new(price): `price as u64` and `(fract * scalar) as u64` truncate
Price_new(price) ==
    [ integral   |-> price \div PriceOne,
      fractional |-> FractTimesScalar(price) \div (PriceOne \div 32),
      scalar     |-> Scalar ]

\* the derived order with the fields fractional and integral swapped
Price_partial_cmp_fractional_first(a, b) ==
    IF a.fractional # b.fractional
    THEN (IF a.fractional < b.fractional THEN -1 ELSE 1)
    ELSE IF a.integral # b.integral
    THEN (IF a.integral < b.integral THEN -1 ELSE 1)
    ELSE IF a.scalar # b.scalar
    THEN (IF a.scalar < b.scalar THEN -1 ELSE 1)
    ELSE 0

\* #[derive(PartialOrd)] on Price: fields compared in declaration order;
\* -1 = Less, 0 = Equal, 1 = Greater
Price_partial_cmp(a, b) ==
    IF a.integral # b.integral
    THEN (IF a.integral < b.integral THEN -1 ELSE 1)
    ELSE IF a.fractional # b.fractional
    THEN (IF a.fractional < b.fractional THEN -1 ELSE 1)
    ELSE IF a.scalar # b.scalar
    THEN (IF a.scalar < b.scalar THEN -1 ELSE 1)
    ELSE 0

----------------------------------------------------------------------------
(* struct Order *)

Order_new(bid_or_ask, size) == [size |-> size, bid_or_ask |-> bid_or_ask]

Order_is_filled(order) == order.size = 0

----------------------------------------------------------------------------
(* struct Limit *)

Limit_new(price) == [price |-> price, orders |-> << >>]

\* self.orders.iter().map(|order| order.size).sum(), summed head to tail
RECURSIVE SumSizes(_, _)
SumSizes(orders, n) ==
    IF n = 0 THEN 0 ELSE FAdd(SumSizes(orders, n - 1), orders[n].size)

Limit_total_volume(l) == SumSizes(l.orders, Len(l.orders))

Limit_add_order(l, order) == [l EXCEPT !.orders = Append(@, order)]

\* FillStep without line 126: a consumed resting order keeps its size
FillStep_keeps_resting(orders, m, i) ==
    IF m.size >= orders[i].size
    THEN [ orders |-> orders,
           market |-> [m EXCEPT !.size = FSub(m.size, orders[i].size)] ]
    ELSE [ orders |-> [orders EXCEPT ![i].size = FSub(orders[i].size, m.size)],
           market |-> [m EXCEPT !.size = 0] ]

\* FillStep that writes the remainder of a full fill to the resting order
FillStep_remainder_to_resting(orders, m, i) ==
    IF m.size >= orders[i].size
    THEN [ orders |-> [orders EXCEPT ![i].size = FSub(m.size, orders[i].size)],
           market |-> [m EXCEPT !.size = 0] ]
    ELSE [ orders |-> [orders EXCEPT ![i].size = FSub(orders[i].size, m.size)],
           market |-> [m EXCEPT !.size = 0] ]

\* FillStep without the comparison of line 124: the resting size is always
\* taken off the incoming order
FillStep_no_compare(orders, m, i) ==
    [ orders |-> [orders EXCEPT ![i].size = 0],
      market |-> [m EXCEPT !.size = FSub(m.size, orders[i].size)] ]

\* one pass of the loop body of Limit::fill_order on the resting order i
FillStep(orders, m, i) ==
    IF m.size >= orders[i].size
    THEN [ orders |-> [orders EXCEPT ![i].size = 0],
           market |-> [m EXCEPT !.size = FSub(m.size, orders[i].size)] ]
    ELSE [ orders |-> [orders EXCEPT ![i].size = FSub(orders[i].size, m.size)],
           market |-> [m EXCEPT !.size = 0] ]

\* the loop of Limit::fill_order with a break at the first resting order
\* that is already filled
RECURSIVE FillLoop_stops_at_filled(_, _, _)
FillLoop_stops_at_filled(orders, m, i) ==
    IF i > Len(orders)
    THEN [orders |-> orders, market |-> m, stop |-> 0]
    ELSE IF Order_is_filled(orders[i])
    THEN [orders |-> orders, market |-> m, stop |-> i]
    ELSE Only({ IF Order_is_filled(s.market)
                THEN [orders |-> s.orders, market |-> s.market, stop |-> i]
                ELSE FillLoop_stops_at_filled(s.orders, s.market, i + 1) :
                s \in {FillStep(orders, m, i)} })

\* the loop of Limit::fill_order from position i on; stop is the position
\* at which the loop took its break, 0 when it ran off the end of the queue
RECURSIVE FillLoop(_, _, _)
FillLoop(orders, m, i) ==
    IF i > Len(orders)
    THEN [orders |-> orders, market |-> m, stop |-> 0]
    ELSE Only({ IF Order_is_filled(s.market)
                THEN [orders |-> s.orders, market |-> s.market, stop |-> i]
                ELSE FillLoop(s.orders, s.market, i + 1) :
                s \in {FillStep(orders, m, i)} })

\* Limit::fill_order that also drops the exhausted orders from the queue
Limit_fill_order_compacting(l, market_order) ==
    Only({ [ limit  |-> [l EXCEPT !.orders =
                            SelectSeq(r.orders, LAMBDA o : o.size # 0)],
             market |-> r.market,
             stop   |-> r.stop ] :
           r \in {FillLoop(l.orders, market_order, 1)} })

Limit_fill_order(l, market_order) ==
    Only({ [ limit  |-> [l EXCEPT !.orders = r.orders],
             market |-> r.market,
             stop   |-> r.stop ] :
           r \in {FillLoop(l.orders, market_order, 1)} })

----------------------------------------------------------------------------
(* HashMap<K, V>: a function on the set of its keys *)

EmptyMap == [k \in {} |-> k]

\* HashMap::insert(key, value): adds the entry or replaces the value
MapInsert(m, key, value) ==
    [k \in DOMAIN m \cup {key} |-> IF k = key THEN value ELSE m[k]]

\* the orders in which values_mut() can visit the keys: HashMap promises none
Enumerations(S) ==
    {e \in [1..Cardinality(S) -> S] : \A i, j \in DOMAIN e : e[i] = e[j] => i = j}

----------------------------------------------------------------------------
(* struct OrderBook *)

OrderBook_new == [bids |-> EmptyMap, asks |-> EmptyMap]

\* slice::sort_by is a stable sort: x goes behind every element that the
\* comparison does not put after it.  cmp(e, x) is asc * partial_cmp(e, x).
RECURSIVE InsertSorted(_, _, _, _)
InsertSorted(m, sorted, x, asc) ==
    IF sorted = << >> THEN <<x>>
    ELSE IF asc * Price_partial_cmp(m[Head(sorted)].price, m[x].price) <= 0
    THEN Only({ <<Head(sorted)>> \o rest :
                rest \in {InsertSorted(m, Tail(sorted), x, asc)} })
    ELSE <<x>> \o sorted

RECURSIVE SortBy(_, _, _, _)
SortBy(m, enum, n, asc) ==
    IF n = 0 THEN << >>
    ELSE Only({ InsertSorted(m, sorted, enum[n], asc) :
                sorted \in {SortBy(m, enum, n - 1, asc)} })

\* ask_limits without line 46: the levels as values_mut() yields them
OrderBook_ask_limits_unsorted(b, enum) == enum

\* OrderBook::ask_limits: the levels as values_mut() yields them (enum),
\* sorted by a.price.partial_cmp(&b.price); a &mut Limit is named by its key
OrderBook_ask_limits(b, enum) == SortBy(b.asks, enum, Len(enum), 1)

\* bid_limits without line 52: the levels as values_mut() yields them
OrderBook_bid_limits_unsorted(b, enum) == enum

\* OrderBook::bid_limits: sorted by b.price.partial_cmp(&a.price)
OrderBook_bid_limits(b, enum) == SortBy(b.bids, enum, Len(enum), -1)

\* the for loop of fill_market_order over the sorted levels, from position i;
\* stop is the position of the level at which the loop took its break, 0 when
\* it ran off the end
RECURSIVE MarketLoop(_, _, _, _)
MarketLoop(m, market, limits, i) ==
    IF i > Len(limits)
    THEN [map |-> m, market |-> market, stop |-> 0]
    ELSE Only({ IF Order_is_filled(r.market)
                THEN [ map |-> [m EXCEPT ![limits[i]] = r.limit],
                       market |-> r.market, stop |-> i ]
                ELSE MarketLoop([m EXCEPT ![limits[i]] = r.limit], r.market,
                                limits, i + 1) :
                r \in {Limit_fill_order(m[limits[i]], market)} })

\* fill_market_order with the arms of its match exchanged: the incoming
\* order is matched against the levels of its own side
OrderBook_fill_market_order_own_side(b, market_order, enum) ==
    IF market_order.bid_or_ask = Bid
    THEN Only({ Only({ [ book   |-> [b EXCEPT !.bids = r.map],
                         market |-> r.market, limits |-> limits,
                         stop   |-> r.stop ] :
                       r \in {MarketLoop(b.bids, market_order, limits, 1)} }) :
                limits \in {OrderBook_bid_limits(b,
                              CHOOSE e \in Enumerations(DOMAIN b.bids) : TRUE)} })
    ELSE Only({ Only({ [ book   |-> [b EXCEPT !.asks = r.map],
                         market |-> r.market, limits |-> limits,
                         stop   |-> r.stop ] :
                       r \in {MarketLoop(b.asks, market_order, limits, 1)} }) :
                limits \in {OrderBook_ask_limits(b,
                              CHOOSE e \in Enumerations(DOMAIN b.asks) : TRUE)} })

\* OrderBook::fill_market_order; enum is the visiting order of the side index
OrderBook_fill_market_order(b, market_order, enum) ==
    IF market_order.bid_or_ask = Bid
    THEN Only({ Only({ [ book   |-> [b EXCEPT !.asks = r.map],
                         market |-> r.market, limits |-> limits,
                         stop   |-> r.stop ] :
                       r \in {MarketLoop(b.asks, market_order, limits, 1)} }) :
                limits \in {OrderBook_ask_limits(b, enum)} })
    ELSE Only({ Only({ [ book   |-> [b EXCEPT !.bids = r.map],
                         market |-> r.market, limits |-> limits,
                         stop   |-> r.stop ] :
                       r \in {MarketLoop(b.bids, market_order, limits, 1)} }) :
                limits \in {OrderBook_bid_limits(b, enum)} })

\* the side index that fill_market_order enumerates for an incoming order
OppositeKeys(b, bid_or_ask) ==
    IF bid_or_ask = Bid THEN DOMAIN b.asks ELSE DOMAIN b.bids

\* add_order that always takes the None arm: a new level replaces the old one
SideAddOrder_replace(m, price, order) ==
    MapInsert(m, price, Limit_add_order(Limit_new(price), order))

\* the arms of the inner match of OrderBook::add_order on one side index
SideAddOrder(m, price, order) ==
    IF price \in DOMAIN m
    THEN [m EXCEPT ![price] = Limit_add_order(@, order)]
    ELSE MapInsert(m, price, Limit_add_order(Limit_new(price), order))

\* add_order that first fills the order against the opposite side and
\* rests what is left of it
OrderBook_add_order_matching(b, price, order) ==
    Only({ IF order.bid_or_ask = Bid
           THEN [r.book EXCEPT !.bids = SideAddOrder(@, Price_new(price), r.market)]
           ELSE [r.book EXCEPT !.asks = SideAddOrder(@, Price_new(price), r.market)] :
           r \in { OrderBook_fill_market_order(b, order,
                     CHOOSE e \in Enumerations(OppositeKeys(b, order.bid_or_ask)) :
                        TRUE) } })

\* add_order with the arms of the outer match exchanged
OrderBook_add_order_wrong_side(b, price, order) ==
    Only({ IF order.bid_or_ask = Bid
           THEN [b EXCEPT !.asks = SideAddOrder(b.asks, key, order)]
           ELSE [b EXCEPT !.bids = SideAddOrder(b.bids, key, order)] :
           key \in {Price_new(price)} })

\* OrderBook::add_order(price, order)
OrderBook_add_order(b, price, order) ==
    LET key == Price_new(price)
    IN  IF order.bid_or_ask = Bid
        THEN [b EXCEPT !.bids = SideAddOrder(b.bids, key, order)]
        ELSE [b EXCEPT !.asks = SideAddOrder(b.asks, key, order)]

----------------------------------------------------------------------------
(* struct TradingPair, struct MatchingEngine *)

TradingPair_new(base, quote) == [base |-> base, quote |-> quote]

\* format!("{}/{}", self.base, self.quote), as the sequence of its pieces
TradingPair_to_string(pair) == <<pair.base, "/", pair.quote>>

MatchingEngine_new == EmptyMap

\* add_new_market that keeps the book of a pair already registered
MatchingEngine_add_new_market_keep(engine, pair) ==
    IF pair \in DOMAIN engine THEN engine
    ELSE MapInsert(engine, pair, OrderBook_new)

MatchingEngine_add_new_market(engine, pair) ==
    MapInsert(engine, pair, OrderBook_new)

\* place_limit_order that opens a book for a pair it does not know
MatchingEngine_place_limit_order_autocreate(engine, pair, price, order) ==
    [ engine |-> MapInsert(engine, pair,
                    OrderBook_add_order(IF pair \in DOMAIN engine THEN engine[pair]
                                        ELSE OrderBook_new, price, order)),
      result |-> [ok |-> TRUE, err |-> << >>] ]

\* place_limit_order that looks the pair up in either order of its symbols
MatchingEngine_place_limit_order_unordered(engine, pair, price, order) ==
    Only({ IF key \in DOMAIN engine
           THEN [ engine |-> [engine EXCEPT
                                ![key] = OrderBook_add_order(@, price, order)],
                  result |-> [ok |-> TRUE, err |-> << >>] ]
           ELSE [ engine |-> engine,
                  result |-> [ ok  |-> FALSE,
                               err |-> <<"No market found for pair: ",
                                         TradingPair_to_string(pair)>> ] ] :
           key \in { IF pair \in DOMAIN engine THEN pair
                     ELSE TradingPair_new(pair.quote, pair.base) } })

\* MatchingEngine::place_limit_order: the engine afterwards and the Result
MatchingEngine_place_limit_order(engine, pair, price, order) ==
    IF pair \in DOMAIN engine
    THEN [ engine |-> [engine EXCEPT ![pair] = OrderBook_add_order(@, price, order)],
           result |-> [ok |-> TRUE, err |-> << >>] ]
    ELSE [ engine |-> engine,
           result |-> [ ok  |-> FALSE,
                        err |-> <<"No market found for pair: ",
                                  TradingPair_to_string(pair)>> ] ]

----------------------------------------------------------------------------
(* Inputs of the operations *)

\* side of the orders resting in the stand-alone level, as in the unit tests
LimitRestSides == {Bid}
\* price of the stand-alone level: 1.234567
LimitPrices == {F64(PriceUnit + 234567)}
\* 100.0, 100.000004 (at this width the same f64 as 100.0), 100.5, 200.25
BookPrices == { F64(100 * PriceUnit), F64(100 * PriceUnit + 4),
                F64(100 * PriceUnit + 5 * Scalar),
                F64(200 * PriceUnit + 25 * (Scalar \div 10)) }
EnginePrices == {F64(10 * PriceUnit), F64(20 * PriceUnit)}
Symbols == {"BTC", "USD"}
Pairs == {TradingPair_new(b, q) : b \in Symbols, q \in Symbols}

\* number of orders held by the levels of one side index
RECURSIVE CountOrders(_)
CountOrders(m) ==
    IF DOMAIN m = {} THEN 0
    ELSE Only({ Len(m[k].orders) + CountOrders([x \in DOMAIN m \ {k} |-> m[x]]) :
                k \in {CHOOSE x \in DOMAIN m : TRUE} })

BookOrders(b) == CountOrders(b.bids) + CountOrders(b.asks)

RECURSIVE EngineOrders(_)
EngineOrders(e) ==
    IF DOMAIN e = {} THEN 0
    ELSE Only({ BookOrders(e[k]) + EngineOrders([x \in DOMAIN e \ {k} |-> e[x]]) :
                k \in {CHOOSE x \in DOMAIN e : TRUE} })

----------------------------------------------------------------------------
(* State.                                                                  *)
(*   limit      a Limit used on its own, as the unit tests do               *)
(*   book       an OrderBook used on its own, as main.rs does               *)
(*   orderbooks MatchingEngine.orderbooks                                   *)
(*   added      history: how many orders were ever pushed to each queue,    *)
(*              and the pairs add_new_market was ever called with           *)
(*   last       history: the last call, its arguments, the state before it  *)
(*              and what it handed back                                     *)
(***************************************************************************)

NoCall == [op |-> "new"]

InitRest ==
    /\ book = OrderBook_new
    /\ orderbooks = MatchingEngine_new
    /\ added = [limit |-> 0, bids |-> EmptyMap, asks |-> EmptyMap, markets |-> {}]
    /\ last = NoCall

\* one more push recorded for the queue at key of a side index
Pushed(count, key) ==
    MapInsert(count, key, IF key \in DOMAIN count THEN count[key] + 1 ELSE 1)

----------------------------------------------------------------------------
(* SpecLimit: a price level on its own *)

InitLimit ==
    /\ limit \in {Limit_new(Price_new(p)) : p \in LimitPrices}
    /\ InitRest

LimitAddOrder(side, size) ==
    /\ Len(limit.orders) < MaxOrders
    /\ limit' = Limit_add_order(limit, Order_new(side, size))
    /\ added' = [added EXCEPT !.limit = @ + 1]
    /\ last' = [op |-> "Limit::add_order", pre |-> limit,
                order |-> Order_new(side, size)]
    /\ UNCHANGED <<book, orderbooks>>

LimitFillOrder(side, size) ==
    \E r \in {Limit_fill_order(limit, Order_new(side, size))} :
        /\ limit' = r.limit
        /\ last' = [op |-> "Limit::fill_order", pre |-> limit,
                    order |-> Order_new(side, size),
                    market |-> r.market, stop |-> r.stop]
        /\ UNCHANGED <<book, orderbooks, added>>

LimitTotalVolume ==
    /\ last' = [op |-> "Limit::total_volume", pre |-> limit,
                result |-> Limit_total_volume(limit)]
    /\ UNCHANGED <<limit, book, orderbooks, added>>

NextLimit ==
    \/ \E side \in LimitRestSides, size \in LimitRestSizes : LimitAddOrder(side, size)
    \/ \E side \in BidOrAsk, size \in LimitMarketSizes : LimitFillOrder(side, size)
    \/ LimitTotalVolume

SpecLimit == InitLimit /\ [][NextLimit]_vars

----------------------------------------------------------------------------
(* Spec: an order book on its own *)

Init ==
    /\ limit = Limit_new(Price_new(0))
    /\ InitRest

AddOrder(price, side, size) ==
    /\ BookOrders(book) < MaxBookOrders
    /\ book' = OrderBook_add_order(book, price, Order_new(side, size))
    /\ added' = IF side = Bid
                THEN [added EXCEPT !.bids = Pushed(@, Price_new(price))]
                ELSE [added EXCEPT !.asks = Pushed(@, Price_new(price))]
    /\ last' = [op |-> "add_order", pre |-> book, price |-> price,
                order |-> Order_new(side, size)]
    /\ UNCHANGED <<limit, orderbooks>>

FillMarketOrder(side, size) ==
    \E enum \in Enumerations(OppositeKeys(book, side)) :
        \E r \in {OrderBook_fill_market_order(book, Order_new(side, size), enum)} :
            /\ book' = r.book
            /\ last' = [op |-> "fill_market_order", pre |-> book,
                        order |-> Order_new(side, size), market |-> r.market,
                        limits |-> r.limits, stop |-> r.stop]
            /\ UNCHANGED <<limit, orderbooks, added>>

AskLimits ==
    \E enum \in Enumerations(DOMAIN book.asks) :
        /\ last' = [op |-> "ask_limits", pre |-> book,
                    limits |-> OrderBook_ask_limits(book, enum)]
        /\ UNCHANGED <<limit, book, orderbooks, added>>

BidLimits ==
    \E enum \in Enumerations(DOMAIN book.bids) :
        /\ last' = [op |-> "bid_limits", pre |-> book,
                    limits |-> OrderBook_bid_limits(book, enum)]
        /\ UNCHANGED <<limit, book, orderbooks, added>>

Next ==
    \/ \E price \in BookPrices, side \in BidOrAsk, size \in BookRestSizes :
          AddOrder(price, side, size)
    \/ \E side \in BidOrAsk, size \in BookMarketSizes : FillMarketOrder(side, size)
    \/ AskLimits
    \/ BidLimits

Spec == Init /\ [][Next]_vars

----------------------------------------------------------------------------
(* SpecEngine: the matching engine *)

AddNewMarket(pair) ==
    /\ orderbooks' = MatchingEngine_add_new_market(orderbooks, pair)
    /\ added' = [added EXCEPT !.markets = @ \cup {pair}]
    /\ last' = [op |-> "add_new_market", pre |-> orderbooks, pair |-> pair]
    /\ UNCHANGED <<limit, book>>

PlaceLimitOrder(pair, price, side, size) ==
    \E r \in {MatchingEngine_place_limit_order(orderbooks, pair, price,
                                                 Order_new(side, size))} :
        /\ pair \in DOMAIN orderbooks => EngineOrders(orderbooks) < MaxEngineOrders
        /\ orderbooks' = r.engine
        /\ last' = [op |-> "place_limit_order", pre |-> orderbooks, pair |-> pair,
                    price |-> price, order |-> Order_new(side, size),
                    result |-> r.result]
        /\ UNCHANGED <<limit, book, added>>

NextEngine ==
    \/ \E pair \in Pairs : AddNewMarket(pair)
    \/ \E pair \in Pairs, price \in EnginePrices, side \in BidOrAsk,
          size \in EngineSizes : PlaceLimitOrder(pair, price, side, size)

SpecEngine == Init /\ [][NextEngine]_vars

----------------------------------------------------------------------------
(* SpecPrice: price keys on their own *)

\* 0.0, 0.000009, 1.0, 1.000004, 1.01404, 1.01405, 1.234567, 1.23457, 1.5,
\* 2.0, 2.25, and the prices of the order book
PriceInputs ==
    { F64(literal) :
        literal \in { 0, 9, PriceUnit, PriceUnit + 4, PriceUnit + 14040,
                      PriceUnit + 14050, PriceUnit + 234567,
                      PriceUnit + 234570, PriceUnit + 5 * Scalar,
                      2 * PriceUnit, 2 * PriceUnit + 25 * (Scalar \div 10) } }
    \cup BookPrices

PriceNew(price) ==
    /\ last' = [op |-> "Price::new", price |-> price, key |-> Price_new(price)]
    /\ UNCHANGED <<limit, book, orderbooks, added>>

\* the comparison sort_by makes of the keys of two prices
PriceCompare(p1, p2) ==
    /\ last' = [op |-> "Price::partial_cmp", p1 |-> p1, p2 |-> p2,
                a |-> Price_new(p1), b |-> Price_new(p2),
                result |-> Price_partial_cmp(Price_new(p1), Price_new(p2))]
    /\ UNCHANGED <<limit, book, orderbooks, added>>

NextPrice ==
    \/ \E price \in PriceInputs : PriceNew(price)
    \/ \E p1 \in PriceInputs, p2 \in PriceInputs : PriceCompare(p1, p2)

SpecPrice == Init /\ [][NextPrice]_vars

----------------------------------------------------------------------------
(* Properties *)

Sizes(orders) == [i \in 1..Len(orders) |-> orders[i].size]

Max(a, b) == IF a >= b THEN a ELSE b

\* a - b on f64 floored at 0
FMonus(a, b) == IF a >= b THEN FSub(a, b) ELSE 0

AfterLimitFill == last.op = "Limit::fill_order"

\* C1: Limit::fill_order consumes the queue strictly FIFO.  After a call, a
\* resting order whose size the call changed has only zero-size orders before
\* it; when the loop stopped because the incoming order became filled, every
\* order behind the stopping position is as it was before the call; and
\* resting [50, 50] against an incoming 99 ends as [0, 1], incoming filled.
C1_FifoFill ==
    AfterLimitFill =>
        LET pre  == last.pre.orders
            post == limit.orders
        IN  /\ Len(post) = Len(pre)
            /\ \A i, j \in 1..Len(post) :
                  (i < j /\ post[j].size # pre[j].size) => post[i].size = 0
            /\ last.stop # 0 =>
                  /\ Order_is_filled(last.market)
                  /\ \A j \in 1..Len(post) : j > last.stop => post[j] = pre[j]
            /\ (Len(pre) >= 2 /\ pre[1].size = 50 /\ pre[2].size = 50
                  /\ last.order.size = 99) =>
                  /\ post[1].size = 0 /\ post[2].size = 1
                  /\ Order_is_filled(last.market)

\* C1 witness: [50, 50, 100] against 99 stops at the second order and leaves
\* [0, 1, 100]
C1_Witness ==
    /\ AfterLimitFill
    /\ Sizes(last.pre.orders) = <<50, 50, 100>>
    /\ last.order.size = 99
    /\ last.stop = 2
    /\ Sizes(limit.orders) = <<0, 1, 100>>
    /\ Order_is_filled(last.market)

\* C2: after Limit::fill_order on a level of total volume V with an incoming
\* order of size s, the incoming order has size max(s - V, 0) and the level
\* has total volume max(V - s, 0); a resting order equal to the incoming one
\* leaves both at zero and the incoming order filled.  (The differences are
\* taken in f64, the reading kindest to the code.)
C2_LevelConservation ==
    AfterLimitFill =>
        LET V == Limit_total_volume(last.pre)
            s == last.order.size
        IN  /\ last.market.size = FMonus(s, V)
            /\ Limit_total_volume(limit) = FMonus(V, s)
            /\ (Len(last.pre.orders) >= 1 /\ last.pre.orders[1].size = s) =>
                  /\ limit.orders[1].size = 0
                  /\ last.market.size = 0
                  /\ Order_is_filled(last.market)

----------------------------------------------------------------------------
(* Properties of OrderBook::fill_market_order *)

AfterMarketFill == last.op = "fill_market_order"

\* the side index an incoming order of the given side is matched against
OppositeSide(b, side) == IF side = Bid THEN b.asks ELSE b.bids

\* the side index an order of the given side rests in
OwnSide(b, side) == IF side = Bid THEN b.bids ELSE b.asks

\* price order: the integral part first, then the fractional part
PriceBefore(p, q) ==
    \/ p.integral < q.integral
    \/ p.integral = q.integral /\ p.fractional < q.fractional

\* level p is a better price than level q for an incoming order of this side
Better(side, p, q) == IF side = Bid THEN PriceBefore(p, q) ELSE PriceBefore(q, p)

LevelChanged(pre, post) ==
    \E i \in 1..Len(pre.orders) : post.orders[i].size # pre.orders[i].size

K100 == Price_new(F64(100 * PriceUnit))
K100h == Price_new(F64(100 * PriceUnit + 5 * Scalar))
K200q == Price_new(F64(200 * PriceUnit + 25 * (Scalar \div 10)))

\* C3: fill_market_order matches best price first.  After a call, every
\* level with a better price than a level the call changed has total volume
\* 0, and every level with a worse price than the level at which the incoming
\* order became filled is as it was: lower asks first for a Bid, higher bids
\* first for an Ask.
C3_BestPriceFirst ==
    AfterMarketFill =>
        LET side == last.order.bid_or_ask
            pre  == OppositeSide(last.pre, side)
            post == OppositeSide(book, side)
        IN  /\ DOMAIN post = DOMAIN pre
            /\ \A p \in DOMAIN pre : Len(post[p].orders) = Len(pre[p].orders)
            /\ \A p, q \in DOMAIN pre :
                  (LevelChanged(pre[p], post[p]) /\ Better(side, q, p))
                      => Limit_total_volume(post[q]) = 0
            /\ last.stop # 0 =>
                  /\ Order_is_filled(last.market)
                  /\ \A q \in DOMAIN pre :
                        Better(side, last.limits[last.stop], q) => post[q] = pre[q]

\* C3 witness: asks 128 at 100.0, 128 at 100.5 and 1 at 200.25 against a Bid
\* of 130 end as 0, 126 and 1
C3_Witness ==
    /\ AfterMarketFill
    /\ last.order = Order_new(Bid, 130)
    /\ DOMAIN last.pre.asks = {K100, K100h, K200q}
    /\ Sizes(last.pre.asks[K100].orders) = <<128>>
    /\ Sizes(last.pre.asks[K100h].orders) = <<128>>
    /\ Sizes(last.pre.asks[K200q].orders) = <<1>>
    /\ Sizes(book.asks[K100].orders) = <<0>>
    /\ Sizes(book.asks[K100h].orders) = <<126>>
    /\ Sizes(book.asks[K200q].orders) = <<1>>
    /\ last.limits[last.stop] = K100h
    /\ Order_is_filled(last.market)

\* the total volume of the levels of a side index, summed in f64 in the order
\* the levels are matched
RECURSIVE SideVolume(_, _, _)
SideVolume(m, limits, n) ==
    IF n = 0 THEN 0
    ELSE FAdd(SideVolume(m, limits, n - 1), Limit_total_volume(m[limits[n]]))

\* the same total in exact arithmetic
RECURSIVE ExactSum(_, _)
ExactSum(orders, n) == IF n = 0 THEN 0 ELSE ExactSum(orders, n - 1) + orders[n].size

RECURSIVE ExactSideVolume(_, _, _)
ExactSideVolume(m, limits, n) ==
    IF n = 0 THEN 0
    ELSE ExactSideVolume(m, limits, n - 1)
            + ExactSum(m[limits[n]].orders, Len(m[limits[n]].orders))

\* C4: fill_market_order conserves quantity.  With s the incoming size and V
\* the total volume of the opposite side before the call, afterwards the
\* incoming size is max(s - V, 0), the opposite side's volume is
\* max(V - s, 0), both lost the same amount, and the incoming order is filled
\* exactly when s <= V.  (Sums and differences taken in f64.)
C4_BookConservation ==
    AfterMarketFill =>
        LET side == last.order.bid_or_ask
            n == Len(last.limits)
            V == SideVolume(OppositeSide(last.pre, side), last.limits, n)
            W == SideVolume(OppositeSide(book, side), last.limits, n)
            s == last.order.size
        IN  /\ last.market.size = FMonus(s, V)
            /\ W = FMonus(V, s)
            /\ FSub(s, last.market.size) = FSub(V, W)
            /\ Order_is_filled(last.market) <=> s <= V

\* C5: a market order larger than all the liquidity of the opposite side
\* (whether that is summed exactly or in f64) comes back with a non-zero
\* size, not filled, and is rested nowhere: both side indices keep their
\* levels and every queue keeps its length.
C5_UnfilledRemainder ==
    AfterMarketFill =>
        LET side == last.order.bid_or_ask
            n == Len(last.limits)
            s == last.order.size
        IN  ( /\ s > SideVolume(OppositeSide(last.pre, side), last.limits, n)
              /\ s > ExactSideVolume(OppositeSide(last.pre, side), last.limits, n) )
            =>  /\ last.market.size # 0
                /\ ~Order_is_filled(last.market)
                /\ DOMAIN book.bids = DOMAIN last.pre.bids
                /\ DOMAIN book.asks = DOMAIN last.pre.asks
                /\ \A k \in DOMAIN book.bids :
                      Len(book.bids[k].orders) = Len(last.pre.bids[k].orders)
                /\ \A k \in DOMAIN book.asks :
                      Len(book.asks[k].orders) = Len(last.pre.asks[k].orders)

----------------------------------------------------------------------------
(* Properties of the matching engine *)

AfterPlace == last.op = "place_limit_order"

AfterAddMarket == last.op = "add_new_market"

\* C6: place_limit_order returns Ok exactly when add_new_market was called
\* with the pair before; for any other pair it returns an Err whose message
\* carries base/quote of that pair, and the engine is as it was before.
C6_RoutingFailure ==
    AfterPlace =>
        /\ last.result.ok <=> last.pair \in added.markets
        /\ last.pair \notin added.markets =>
              /\ ~last.result.ok
              /\ Len(last.result.err) = 2
              /\ last.result.err[2] = <<last.pair.base, "/", last.pair.quote>>
              /\ orderbooks = last.pre

\* C6 witness: an order for an unregistered pair is refused while another
\* pair's book holds an order
C6_Witness ==
    /\ AfterPlace
    /\ ~last.result.ok
    /\ last.pair \notin DOMAIN orderbooks
    /\ EngineOrders(last.pre) >= 1
    /\ orderbooks = last.pre

\* C7: after add_new_market the pair's book has no level on either side,
\* whatever it held before, and the books of the other pairs are as before.
C7_ReRegistration ==
    AfterAddMarket =>
        /\ DOMAIN orderbooks = DOMAIN last.pre \cup {last.pair}
        /\ DOMAIN orderbooks[last.pair].bids = {}
        /\ DOMAIN orderbooks[last.pair].asks = {}
        /\ \A p \in DOMAIN last.pre : p # last.pair => orderbooks[p] = last.pre[p]

\* C7 witness: the pair registered again had orders resting on both sides
C7_Witness ==
    /\ AfterAddMarket
    /\ last.pair \in DOMAIN last.pre
    /\ DOMAIN last.pre[last.pair].bids # {}
    /\ DOMAIN last.pre[last.pair].asks # {}
    /\ BookOrders(orderbooks[last.pair]) = 0

----------------------------------------------------------------------------
(* Properties of OrderBook::add_order and of the level enumerations *)

AfterAdd == last.op = "add_order"

\* C8: add_order puts the order on the side index of the order's own side:
\* appended at the tail of the level at its price key when there is one (no
\* level added), else alone in one new level; the other levels of that side
\* and the whole other side are unchanged.
C8_AddOrder ==
    AfterAdd =>
        LET side == last.order.bid_or_ask
            key  == Price_new(last.price)
            pre  == OwnSide(last.pre, side)
            post == OwnSide(book, side)
        IN  /\ OppositeSide(book, side) = OppositeSide(last.pre, side)
            /\ \A k \in DOMAIN pre \ {key} : k \in DOMAIN post /\ post[k] = pre[k]
            /\ IF key \in DOMAIN pre
               THEN /\ DOMAIN post = DOMAIN pre
                    /\ post[key].price = pre[key].price
                    /\ post[key].orders = Append(pre[key].orders, last.order)
               ELSE /\ DOMAIN post = DOMAIN pre \cup {key}
                    /\ Cardinality(DOMAIN post) = Cardinality(DOMAIN pre) + 1
                    /\ post[key] = [price |-> key, orders |-> <<last.order>>]

\* C8 witness: an Ask at 100.000004 joins the level made by an Ask at 100.0
\* while a bid level exists
C8_Witness ==
    /\ AfterAdd
    /\ last.price = F64(100 * PriceUnit + 4)
    /\ last.order.bid_or_ask = Ask
    /\ K100 \in DOMAIN last.pre.asks
    /\ Len(last.pre.asks[K100].orders) = 1
    /\ Len(book.asks[K100].orders) = 2
    /\ book.asks[K100].orders[2] = last.order
    /\ DOMAIN book.bids # {}

\* the level l holds all n orders ever pushed to it and its total volume is
\* their f64 sum, which is their exact sum whenever that is representable
\* at every step
VolumeOfAllAdded(l, n) ==
    /\ Len(l.orders) = n
    /\ Limit_total_volume(l) = SumSizes(l.orders, n)
    /\ ExactSum(l.orders, n) < Pow2(MantBits) =>
          Limit_total_volume(l) = ExactSum(l.orders, n)

\* C9: in every state of the book, each level holds every order ever added
\* to it (the queue is as long as the number of pushes, the levels are the
\* keys ever pushed to), so Limit::total_volume is the f64 sum, head to tail,
\* of the sizes of all of them, the filled ones included.
C9_TotalVolume ==
    /\ DOMAIN book.bids = DOMAIN added.bids
    /\ DOMAIN book.asks = DOMAIN added.asks
    /\ \A k \in DOMAIN book.bids :
          VolumeOfAllAdded(book.bids[k], added.bids[k])
    /\ \A k \in DOMAIN book.asks :
          VolumeOfAllAdded(book.asks[k], added.asks[k])

\* C9 witness: after a fill a level still holds both its orders, the first
\* one filled, and its total volume is the second one's size
C9_Witness ==
    /\ AfterMarketFill
    /\ K100 \in DOMAIN book.asks
    /\ added.asks[K100] = 2
    /\ Sizes(last.pre.asks[K100].orders) = <<128, 128>>
    /\ Sizes(book.asks[K100].orders) = <<0, 126>>
    /\ Limit_total_volume(book.asks[K100]) = 126

AfterLimits == last.op \in {"ask_limits", "bid_limits"}

\* C10: ask_limits returns every ask level exactly once, strictly ascending
\* by price, and bid_limits every bid level exactly once, strictly
\* descending, the integral part compared first and then the fractional
\* part; the book is unchanged.
C10_SortedLimits ==
    AfterLimits =>
        LET m == IF last.op = "ask_limits" THEN book.asks ELSE book.bids
            L == last.limits
        IN  /\ Len(L) = Cardinality(DOMAIN m)
            /\ {L[i] : i \in 1..Len(L)} = DOMAIN m
            /\ \A i, j \in 1..Len(L) : i < j =>
                  IF last.op = "ask_limits"
                  THEN PriceBefore(m[L[i]].price, m[L[j]].price)
                  ELSE PriceBefore(m[L[j]].price, m[L[i]].price)
            /\ book = last.pre

\* C10 witness: the three ask levels come back as 100.0, 100.5, 200.25
C10_Witness ==
    /\ last.op = "ask_limits"
    /\ last.limits = <<K100, K100h, K200q>>
    /\ DOMAIN book.asks = {K100, K100h, K200q}

----------------------------------------------------------------------------
(* Properties of Price *)

C12_PriceNew ==
    last.op = "Price::new" =>
        LET p == last.price
            k == last.key
            fract == p - k.integral * PriceOne
            exact == fract * (Scalar \div 32)
            product == FractTimesScalar(p)
            one == PriceOne \div 32
        IN  /\ k.integral >= 0
            /\ k.integral * PriceOne <= p
            /\ p < (k.integral + 1) * PriceOne
            /\ 2 * (product - exact) <= PriceUlp(exact)
            /\ 2 * (exact - product) <= PriceUlp(exact)
            /\ k.fractional * one <= product
            /\ product < (k.fractional + 1) * one
            /\ 0 <= k.fractional /\ k.fractional < 100000
            /\ k.scalar = 100000
            /\ p = F64(PriceUnit + 234567) =>
                   (k.integral = 1 /\ k.fractional = 23456)

\* C12 witness: the literal 1.234567 is cut off to the key (1, 23456)
C12_Witness ==
    /\ last.op = "Price::new"
    /\ last.price = F64(PriceUnit + 234567)
    /\ last.price % PriceOne # 0
    /\ last.key = [integral |-> 1, fractional |-> 23456, scalar |-> 100000]

----------------------------------------------------------------------------
(* Properties of the trading-pair key *)

\* the pair with base and quote exchanged
Swapped(pair) == TradingPair_new(pair.quote, pair.base)

\* C13 as stated: the pair is unordered, so after add_new_market(X, Y) a
\* place_limit_order for (Y, X) returns Ok and adds the order to the book
\* registered for (X, Y).
C13_UnorderedPair ==
    (AfterPlace /\ Swapped(last.pair) \in added.markets) =>
        /\ last.result.ok
        /\ orderbooks[Swapped(last.pair)] =
              OrderBook_add_order(last.pre[Swapped(last.pair)],
                                  last.price, last.order)

\* C13 amended: the pair is the ordered pair (base, quote).  After
\* add_new_market(X, Y) with X # Y, place_limit_order for (Y, X) leaves the
\* book of (X, Y) as it is; it returns Ok only when (Y, X) was registered
\* itself, and then adds the order to the separate book of (Y, X); else it
\* returns the Err naming Y/X and changes nothing.
C13_OrderedPair ==
    ( /\ AfterPlace
      /\ last.pair.base # last.pair.quote
      /\ Swapped(last.pair) \in added.markets ) =>
        /\ orderbooks[Swapped(last.pair)] = last.pre[Swapped(last.pair)]
        /\ last.result.ok <=> last.pair \in added.markets
        /\ last.result.ok =>
              orderbooks[last.pair] =
                 OrderBook_add_order(last.pre[last.pair], last.price, last.order)
        /\ ~last.result.ok =>
              /\ orderbooks = last.pre
              /\ last.result.err[2] = <<last.pair.base, "/", last.pair.quote>>

\* C13 witness: an order for (Y, X) is refused while only (X, Y) is
\* registered and its book holds an order
C13_Witness ==
    /\ AfterPlace
    /\ last.pair.base # last.pair.quote
    /\ Swapped(last.pair) \in added.markets
    /\ last.pair \notin added.markets
    /\ BookOrders(last.pre[Swapped(last.pair)]) >= 1
    /\ ~last.result.ok
    /\ orderbooks = last.pre

----------------------------------------------------------------------------
(* Invariants of the order book *)

\* the pushes recorded for the side index of the given side
AddedSide(side) == IF side = Bid THEN added.bids ELSE added.asks

\* C14: in every reachable state every order in a level of the bid index has
\* side Bid and every order in a level of the ask index has side Ask, each
\* level's price field is the key it is indexed under, no two levels of a
\* side have the same price, and a side has exactly one level for each price
\* key an order of that side was added at, holding all of those orders.
C14_SideAndKey ==
    \A side \in BidOrAsk :
        LET m == OwnSide(book, side)
        IN  /\ \A k \in DOMAIN m :
                  /\ m[k].price = k
                  /\ \A i \in 1..Len(m[k].orders) :
                        m[k].orders[i].bid_or_ask = side
            /\ \A k1 \in DOMAIN m, k2 \in DOMAIN m :
                  m[k1].price = m[k2].price => k1 = k2
            /\ DOMAIN m = DOMAIN AddedSide(side)
            /\ \A k \in DOMAIN m : Len(m[k].orders) = AddedSide(side)[k]

\* C14 witness: after a fill that changed the book, the key of 100.0 indexes
\* a level on both sides, one of them holding two orders
C14_Witness ==
    /\ AfterMarketFill
    /\ K100 \in DOMAIN book.bids
    /\ K100 \in DOMAIN book.asks
    /\ Len(book.bids[K100].orders) + Len(book.asks[K100].orders) = 3
    /\ book # last.pre

\* every order resting in the side index m has a size >= 0
NonNegative(m) ==
    \A k \in DOMAIN m : \A i \in 1..Len(m[k].orders) : m[k].orders[i].size >= 0

\* C15: with every order constructed with a size >= 0, in every reachable
\* state every resting order has a size >= 0, and so has the incoming order
\* when fill_market_order (Limit::fill_order on each level) returns.
C15_NonNegative ==
    /\ NonNegative(book.bids)
    /\ NonNegative(book.asks)
    /\ AfterMarketFill => (last.order.size >= 0 /\ last.market.size >= 0)
    /\ AfterAdd => last.order.size >= 0

\* C15 witness: an incoming order smaller than the resting order it meets is
\* filled, and that resting order keeps a positive remainder
C15_Witness ==
    /\ AfterMarketFill
    /\ last.order.size > 0
    /\ last.market.size = 0
    /\ \E k \in DOMAIN OppositeSide(book, last.order.bid_or_ask) :
          \E i \in 1..Len(OppositeSide(book, last.order.bid_or_ask)[k].orders) :
             LET post == OppositeSide(book, last.order.bid_or_ask)[k].orders[i].size
                 pre  == OppositeSide(last.pre, last.order.bid_or_ask)[k].orders[i].size
             IN  0 < post /\ post < pre

\* the levels of side index pre are still in post, with every order at its
\* place in the queue
Kept(pre, post) ==
    \A k \in DOMAIN pre :
        /\ k \in DOMAIN post
        /\ Len(post[k].orders) >= Len(pre[k].orders)

\* no order of pre has a larger size in post, and a filled order is filled
NotIncreased(pre, post) ==
    \A k \in DOMAIN pre : \A i \in 1..Len(pre[k].orders) :
        /\ post[k].orders[i].size <= pre[k].orders[i].size
        /\ Order_is_filled(pre[k].orders[i]) => Order_is_filled(post[k].orders[i])

\* some order of pre has another size in post
SizeChanged(pre, post) ==
    \E k \in DOMAIN pre : \E i \in 1..Len(pre[k].orders) :
        post[k].orders[i].size # pre[k].orders[i].size

\* C16: in every step every resting order stays at its place, no order's
\* size increases, a size that is 0 stays 0, a step that changes a size is a
\* fill_market_order (Limit::fill_order on its levels), and the incoming
\* order of a fill returns no larger than it came.
C16_OneWay ==
    [][ /\ Kept(book.bids, book'.bids) /\ Kept(book.asks, book'.asks)
        /\ NotIncreased(book.bids, book'.bids)
        /\ NotIncreased(book.asks, book'.asks)
        /\ (SizeChanged(book.bids, book'.bids) \/ SizeChanged(book.asks, book'.asks))
              => last'.op = "fill_market_order"
        /\ last'.op = "fill_market_order" =>
              last'.market.size <= last'.order.size ]_vars

\* C16 witness: a fill passed an order filled earlier, which stayed at 0,
\* and took size off another order
C16_Witness ==
    /\ AfterMarketFill
    /\ \E k \in DOMAIN OppositeSide(last.pre, last.order.bid_or_ask) :
          \E i \in 1..Len(OppositeSide(last.pre, last.order.bid_or_ask)[k].orders) :
             /\ OppositeSide(last.pre, last.order.bid_or_ask)[k].orders[i].size = 0
             /\ OppositeSide(book, last.order.bid_or_ask)[k].orders[i].size = 0
    /\ SizeChanged(OppositeSide(last.pre, last.order.bid_or_ask),
                   OppositeSide(book, last.order.bid_or_ask))

----------------------------------------------------------------------------
(* Properties of OrderBook::fill_market_order and OrderBook::add_order *)

\* C17: fill_market_order leaves the side index of the incoming order's own
\* side as it was: the same levels, the same queues, the same sizes (a Bid
\* leaves the bid index unchanged, an Ask the ask index).
C17_OppositeSideOnly ==
    AfterMarketFill =>
        /\ last.order.bid_or_ask = Bid => book.bids = last.pre.bids
        /\ last.order.bid_or_ask = Ask => book.asks = last.pre.asks

\* C17 witness: an incoming order comes back with a remainder after taking
\* size off the opposite side, while an open order rests on its own side
C17_Witness ==
    /\ AfterMarketFill
    /\ last.market.size > 0
    /\ SizeChanged(OppositeSide(last.pre, last.order.bid_or_ask),
                   OppositeSide(book, last.order.bid_or_ask))
    /\ \E k \in DOMAIN OwnSide(book, last.order.bid_or_ask) :
          OwnSide(book, last.order.bid_or_ask)[k].orders[1].size > 0

\* the level of side index m with the lowest price
Lowest(m) == CHOOSE k \in DOMAIN m : \A x \in DOMAIN m : ~PriceBefore(x, k)

\* the level of side index m with the highest price
Highest(m) == CHOOSE k \in DOMAIN m : \A x \in DOMAIN m : ~PriceBefore(k, x)

\* the highest bid price is >= the lowest ask price, and both of these
\* levels hold volume
Crossed(b) ==
    /\ DOMAIN b.bids # {} /\ DOMAIN b.asks # {}
    /\ ~PriceBefore(Highest(b.bids), Lowest(b.asks))
    /\ Limit_total_volume(b.bids[Highest(b.bids)]) > 0
    /\ Limit_total_volume(b.asks[Lowest(b.asks)]) > 0

\* C18: add_order never matches.  After add_order every order that was in
\* the book has the size it had, on both sides, and the new order rests at
\* the tail of its level with the size it came with, also when its price
\* crosses the best price of the opposite side.
C18_NoMatchOnAdd ==
    AfterAdd =>
        LET own == OwnSide(book, last.order.bid_or_ask)
            key == Price_new(last.price)
        IN  /\ Kept(last.pre.bids, book.bids) /\ Kept(last.pre.asks, book.asks)
            /\ ~SizeChanged(last.pre.bids, book.bids)
            /\ ~SizeChanged(last.pre.asks, book.asks)
            /\ key \in DOMAIN own
            /\ own[key].orders[Len(own[key].orders)] = last.order
            /\ BookOrders(book) = BookOrders(last.pre) + 1

\* C18 witness: a Bid added above the lowest ask, which holds volume, rests
\* unmatched: the book was not crossed before and is crossed now
C18_Witness ==
    /\ AfterAdd
    /\ last.order.bid_or_ask = Bid
    /\ last.order.size > 0
    /\ ~Crossed(last.pre)
    /\ Crossed(book)
    /\ Highest(book.bids) = Price_new(last.price)
    /\ PriceBefore(Lowest(book.asks), Price_new(last.price))
    /\ book.asks = last.pre.asks

\* C19: the outcome of fill_market_order does not depend on the order in
\* which the side index yields its levels: from the same book and incoming
\* order, every visiting order of the index ends with the same size for
\* every resting order and for the incoming order, the levels having been
\* matched in the same sequence.
C19_IterationOrder ==
    AfterMarketFill =>
        \A e \in Enumerations(OppositeKeys(last.pre, last.order.bid_or_ask)) :
            \E r \in {OrderBook_fill_market_order(last.pre, last.order, e)} :
                /\ r.book = book
                /\ r.market = last.market
                /\ r.limits = last.limits
                /\ r.stop = last.stop

\* C19 witness: the index held two levels with volume, the incoming order
\* was filled at the first of them and the second was left as it was
C19_Witness ==
    /\ AfterMarketFill
    /\ Len(last.limits) = 2
    /\ last.stop = 1
    /\ last.order.size > 0
    /\ Limit_total_volume(
          OppositeSide(last.pre, last.order.bid_or_ask)[last.limits[1]]) > 0
    /\ Limit_total_volume(
          OppositeSide(book, last.order.bid_or_ask)[last.limits[2]]) > 0
    /\ LevelChanged(OppositeSide(last.pre, last.order.bid_or_ask)[last.limits[1]],
                    OppositeSide(book, last.order.bid_or_ask)[last.limits[1]])

----------------------------------------------------------------------------
(* Retained filled orders *)

\* a side index without its zero-size orders and without the levels that
\* hold no other order
CompactSide(m) ==
    [ k \in {x \in DOMAIN m : \E i \in 1..Len(m[x].orders) : m[x].orders[i].size # 0}
        |-> [m[k] EXCEPT !.orders = SelectSeq(@, LAMBDA o : o.size # 0)] ]

\* the book that drops the filled orders and the exhausted levels
Compact(b) == [bids |-> CompactSide(b.bids), asks |-> CompactSide(b.asks)]

\* C20: the filled orders and exhausted levels the book retains do not
\* affect matching.  Each add_order and fill_market_order, made on the book
\* as the code keeps it and on the same book with these orders and levels
\* dropped, gives the same remainder of the incoming order and, once the
\* filled orders are dropped again, the same levels with the same non-zero
\* sizes in the same queue order; so a book that drops them after every fill
\* goes through the compacted states of the code's book, call by call.
C20_RetainedFilled ==
    /\ AfterMarketFill =>
          \A e \in Enumerations(OppositeKeys(Compact(last.pre),
                                             last.order.bid_or_ask)) :
              \E r \in {OrderBook_fill_market_order(Compact(last.pre),
                                                    last.order, e)} :
                  /\ r.market = last.market
                  /\ Compact(r.book) = Compact(book)
    /\ AfterAdd =>
          Compact(OrderBook_add_order(Compact(last.pre), last.price, last.order))
             = Compact(book)

\* C20 witness: a fill passed a filled order retained at the head of a
\* level and took size off an order behind it in the same queue
C20_Witness ==
    /\ AfterMarketFill
    /\ \E k \in DOMAIN OppositeSide(last.pre, last.order.bid_or_ask) :
          LET pre  == OppositeSide(last.pre, last.order.bid_or_ask)[k].orders
              post == OppositeSide(book, last.order.bid_or_ask)[k].orders
          IN  /\ Len(pre) >= 2
              /\ pre[1].size = 0
              /\ \E j \in 2..Len(pre) : post[j].size < pre[j].size
    /\ Compact(last.pre) # last.pre

====
